---- MODULE Spec2Model ----
(***************************************************************************)
(* Model of the bio-generation orchestration of node-ai-integration        *)
(* (src/services/aiService.js): the AIService singleton, its constructor,  *)
(* generateBio, generateBioWithRetry, generateBioWithOpenAI,               *)
(* generateBioWithGemini, sleep and getServiceStatus.                      *)
(*                                                                         *)
(* An async function runs atomically from one await to the next, so every  *)
(* action below is one such run: the entry of generateBio up to its first  *)
(* await, and the continuation that follows each awaited promise (the      *)
(* OpenAI request, the backoff timer, the Gemini request) up to the next   *)
(* await or to the settlement of the generateBio promise.                  *)
(*                                                                         *)
(* Text is a sequence of one-character strings, so that String.trim and    *)
(* template literals are computed and not assumed.  A JS value that may be *)
(* undefined is a record; an Error is a record whose status and code       *)
(* fields exist only when the JS properties are set.                       *)
(***************************************************************************)
EXTENDS Integers, Sequences, FiniteSets, TLC

VARIABLES env, openai, geminiModel, calls, lastStatus, users, reqs, rate

vars == <<env, openai, geminiModel, calls, lastStatus, users, reqs, rate>>

----------------------------------------------------------------------------
(* Bounds of the model *)

\* number of generateBio invocations that may be pending at the same time
NumCalls == 1

\* longest raw text a provider answers with
MaxTextLen == 2

----------------------------------------------------------------------------
(* Program constants *)

\* generateBioWithRetry(name, role, maxRetries = 3, baseDelay = 1000)
DefaultMaxRetries == 3

DefaultBaseDelay == 1000

PLACEHOLDER == "your_gemini_api_key_here"

----------------------------------------------------------------------------
(* Text *)

Chars == {" ", "b"}

isWhitespace(ch) == ch = " "

RawTexts == UNION {[1..n -> Chars] : n \in 0..MaxTextLen}

RECURSIVE trimStart(_)
trimStart(s) ==
  IF s = <<>> THEN <<>>
  ELSE IF isWhitespace(Head(s)) THEN trimStart(Tail(s))
  ELSE s

RECURSIVE trimEnd(_)
trimEnd(s) ==
  IF s = <<>> THEN <<>>
  ELSE IF isWhitespace(s[Len(s)]) THEN trimEnd(SubSeq(s, 1, Len(s) - 1))
  ELSE s

\* String.prototype.trim
trim(s) == trimEnd(trimStart(s))

\* a message is a sequence of fragments; a template literal concatenates them
Contains(msg, sub) ==
  \E i \in 0..(Len(msg) - Len(sub)) : SubSeq(msg, i + 1, i + Len(sub)) = sub

StartsWith(msg, pre) ==
  Len(msg) >= Len(pre) /\ SubSeq(msg, 1, Len(pre)) = pre

----------------------------------------------------------------------------
(* Inputs: request arguments, environments and provider answers *)

Names == {"Ann"}

RoleNames == {"Engineer"}

\* process.env restricted to the two credentials; an unset variable is not
\* in the domain of the function
EnvNames == {"OPENAI_API_KEY", "GEMINI_API_KEY"}

OpenAIKeys == {"", "sk-key"}

GeminiKeys == {"", PLACEHOLDER, "gm-key"}

Envs ==
  {<<>>}
  \cup {[n \in {"OPENAI_API_KEY"} |-> k] : k \in OpenAIKeys}
  \cup {[n \in {"GEMINI_API_KEY"} |-> k] : k \in GeminiKeys}
  \cup UNION {{[n \in EnvNames |-> IF n = "OPENAI_API_KEY" THEN a ELSE g] :
                 a \in OpenAIKeys} : g \in GeminiKeys}

\* JS truthiness of process.env[n]
truthy(e, n) == n \in DOMAIN e /\ e[n] # ""

Undefined == [undefined |-> TRUE]

\* failures the OpenAI client rejects with
OpenAIErrors ==
  { [message |-> <<"Rate limit reached">>, status |-> 429, code |-> "rate_limit_exceeded"],
    [message |-> <<"Incorrect API key provided">>, status |-> 401],
    [message |-> <<"Country not supported">>, status |-> 403],
    [message |-> <<"Invalid API key">>, code |-> "invalid_api_key"] }

\* failures the Gemini client rejects with
GeminiErrors ==
  { [message |-> <<"Resource has been exhausted">>, status |-> 429],
    [message |-> <<"API key not valid">>, status |-> 400] }

\* completion.choices[0].message.content is a string or null
OpenAIResponses ==
  {[kind |-> "completion", content |-> t] : t \in RawTexts}
  \cup {[kind |-> "nullcontent"]}
  \cup {[kind |-> "error", error |-> e] : e \in OpenAIErrors}

GeminiResponses ==
  {[kind |-> "text", content |-> t] : t \in RawTexts}
  \cup {[kind |-> "error", error |-> e] : e \in GeminiErrors}

\* thrown by null.trim() at line 62
TypeErrorNull == [message |-> <<"Cannot read properties of null (reading 'trim')">>]

----------------------------------------------------------------------------
(* AIService.constructor *)

constructor(e) ==
  [ openai      |-> truthy(e, "OPENAI_API_KEY"),
    geminiModel |-> truthy(e, "GEMINI_API_KEY") /\ e["GEMINI_API_KEY"] # PLACEHOLDER ]

----------------------------------------------------------------------------
(* One generateBio invocation *)

CallIds == 1..NumCalls

NoResult == [kind |-> "none"]

\* entry is the method of the service the caller invoked
IdleCall ==
  [ pc |-> "idle", entry |-> "generateBio", name |-> "", role |-> "",
    maxRetries |-> 0, baseDelay |-> 0, attempt |-> 0,
    lastError |-> Undefined, error |-> Undefined, prompt |-> <<>>,
    delays |-> <<>>, callsA |-> 0, callsB |-> 0,
    outcomesA |-> <<>>, outcomesB |-> <<>>,
    result |-> NoResult ]

returns(r, v) == [r EXCEPT !.pc = "done", !.result = [kind |-> "return", value |-> v]]

throws(r, e) == [r EXCEPT !.pc = "done", !.result = [kind |-> "throw", error |-> e]]

\* the prompt of generateBioWithOpenAI (line 41)
openaiPrompt(name, role) ==
  <<"Generate a comprehensive, professional bio (100-200 words) for a person named ",
    name, " who works as a ", role, ".">>

\* the prompt of generateBioWithGemini (lines 91-101)
geminiPrompt(name, role) ==
  <<"Generate a professional bio for ", name, " who is a ", role, ".">>

\* await this.openai.chat.completions.create(...): the request leaves
requestOpenAI(r) ==
  [r EXCEPT !.pc = "openai", !.callsA = @ + 1, !.prompt = openaiPrompt(r.name, r.role)]

\* await this.geminiModel.generateContent(prompt): the request leaves;
\* at is the await in generateBio the call was made from
requestGemini(r, at) ==
  [r EXCEPT !.pc = at, !.callsB = @ + 1, !.prompt = geminiPrompt(r.name, r.role)]

----------------------------------------------------------------------------
(* generateBio, innermost handlers first *)

bothFailedError_noGemini(error, geminiError) ==
  [message |-> <<"Bio generation failed: OpenAI (">> \o error.message
                 \o <<") and Gemini failed">>]

\* the error of line 206
bothFailedError(error, geminiError) ==
  [message |-> <<"Bio generation failed: OpenAI (">> \o error.message
                 \o <<") and Gemini (">> \o geminiError.message
                 \o <<") both failed">>]

\* the error of line 222
noServiceError ==
  [message |-> <<"No AI service is configured. Please set either OPENAI_API_KEY or GEMINI_API_KEY environment variable.">>]

geminiFallback_catch_retry(r, geminiError) ==
  IF r.callsB < 2
  THEN requestGemini(r, "geminiFallback")
  ELSE throws(r, bothFailedError(r.error, geminiError))

\* catch (geminiError) of the fallback call, lines 201-207
geminiFallback_catch(r, geminiError) ==
  throws(r, bothFailedError(r.error, geminiError))

geminiDirect_catch_retry(r, geminiError) ==
  IF r.callsB < 2 THEN requestGemini(r, "geminiDirect") ELSE throws(r, geminiError)

\* the direct call of line 218 has no handler: the rejection leaves generateBio
geminiDirect_catch(r, geminiError) ==
  throws(r, geminiError)

gemini_catch_swallow(r, at, geminiError) ==
  [r EXCEPT !.pc = "pending"]

\* the rejection of generateBioWithGemini reaches the handler of its call
gemini_catch(r, at, geminiError) ==
  IF at = "geminiFallback" THEN geminiFallback_catch(r, geminiError)
  ELSE geminiDirect_catch(r, geminiError)

\* generateBioWithGemini up to its await, lines 85-103
generateBioWithGemini(r, at) ==
  IF ~geminiModel
  THEN gemini_catch(r, at, [message |-> <<"Gemini API is not configured">>])
  ELSE requestGemini(r, at)

generateBio_catch_generic(r, error) ==
  IF geminiModel
  THEN generateBioWithGemini([r EXCEPT !.error = error], "geminiFallback")
  ELSE throws(r, [message |-> <<"Bio generation failed">>])

\* catch (error) around the retrying call, lines 191-212
generateBio_catch(r, error) ==
  IF geminiModel
  THEN generateBioWithGemini([r EXCEPT !.error = error], "geminiFallback")
  ELSE throws(r, error)

----------------------------------------------------------------------------
(* generateBioWithRetry *)

isAuthError_no403(error) ==
  \/ ("status" \in DOMAIN error /\ error.status = 401)
  \/ ("code" \in DOMAIN error /\ error.code = "invalid_api_key")

\* line 160
isAuthError(error) ==
  \/ ("status" \in DOMAIN error /\ error.status \in {401, 403})
  \/ ("code" \in DOMAIN error /\ error.code = "invalid_api_key")

backoffDelay_offByOne(baseDelay, attempt) == baseDelay * 2 ^ attempt

backoffDelay_linear(baseDelay, attempt) == baseDelay * attempt

\* line 167
backoffDelay(baseDelay, attempt) == baseDelay * 2 ^ (attempt - 1)

\* generateBioWithRetry rejects: into the handler of generateBio when
\* generateBio awaits it (line 190), else to the caller of the method
generateBioWithRetry_throw(r, error) ==
  IF r.entry = "generateBio" THEN generateBio_catch(r, error) ELSE throws(r, error)

generateBioWithRetry_exhausted_firstError(r) ==
  generateBioWithRetry_throw(r, IF r.outcomesA[1].kind = "error"
                                THEN r.outcomesA[1].error ELSE TypeErrorNull)

\* the loop is left without a result: lines 175-176
generateBioWithRetry_exhausted(r) ==
  generateBioWithRetry_throw(r, r.lastError)

generateBioWithRetry_try_noReturn(r, bio) ==
  IF r.attempt < r.maxRetries
  THEN requestOpenAI([r EXCEPT !.attempt = @ + 1])
  ELSE generateBioWithRetry_exhausted([r EXCEPT !.attempt = @ + 1])

\* return await this.generateBioWithOpenAI(name, role), line 146, and
\* return await this.generateBioWithRetry(name, role), line 190
generateBioWithRetry_try(r, bio) ==
  returns(r, bio)

\* the attempt counter kept on the shared service object instead of in the call
generateBioWithRetry_catch_sharedAttempt(r, error) ==
  LET r1 == [r EXCEPT !.lastError = error]
      shared == CHOOSE a \in {calls[c].attempt : c \in DOMAIN calls} :
                  \A c \in DOMAIN calls : calls[c].attempt <= a
  IN
  IF isAuthError(error)
  THEN generateBioWithRetry_throw(r1, error)
  ELSE IF shared < r1.maxRetries
  THEN [r1 EXCEPT !.pc = "sleep",
                  !.delays = Append(@, backoffDelay(r1.baseDelay, shared))]
  ELSE generateBioWithRetry_exhausted([r1 EXCEPT !.attempt = @ + 1])

generateBioWithRetry_catch_alwaysSleep(r, error) ==
  LET r1 == [r EXCEPT !.lastError = error] IN
  IF isAuthError(error)
  THEN generateBioWithRetry_throw(r1, error)
  ELSE [r1 EXCEPT !.pc = "sleep",
                  !.delays = Append(@, backoffDelay(r1.baseDelay, r1.attempt))]

generateBioWithRetry_catch_noWait(r, error) ==
  LET r1 == [r EXCEPT !.lastError = error] IN
  IF isAuthError(error)
  THEN generateBioWithRetry_throw(r1, error)
  ELSE IF r1.attempt < r1.maxRetries
  THEN requestOpenAI([r1 EXCEPT !.attempt = @ + 1,
                                !.delays = Append(@, backoffDelay(r1.baseDelay, r1.attempt))])
  ELSE generateBioWithRetry_exhausted([r1 EXCEPT !.attempt = @ + 1])

generateBioWithRetry_catch_noAbort(r, error) ==
  LET r1 == [r EXCEPT !.lastError = error] IN
  IF r1.attempt < r1.maxRetries
  THEN [r1 EXCEPT !.pc = "sleep",
                  !.delays = Append(@, backoffDelay(r1.baseDelay, r1.attempt))]
  ELSE generateBioWithRetry_exhausted([r1 EXCEPT !.attempt = @ + 1])

\* catch (error) of one attempt, lines 147-171, and what follows it
generateBioWithRetry_catch(r, error) ==
  LET r1 == [r EXCEPT !.lastError = error] IN
  IF isAuthError(error)
  THEN generateBioWithRetry_throw(r1, error)
  ELSE IF r1.attempt < r1.maxRetries
  THEN [r1 EXCEPT !.pc = "sleep",
                  !.delays = Append(@, backoffDelay(r1.baseDelay, r1.attempt))]
  ELSE generateBioWithRetry_exhausted([r1 EXCEPT !.attempt = @ + 1])

\* generateBioWithOpenAI up to its await, lines 35-43; its own catch
\* rethrows into the catch of the retry loop
generateBioWithOpenAI(r) ==
  IF ~openai
  THEN generateBioWithRetry_catch(r, [message |-> <<"OpenAI client not initialized">>])
  ELSE requestOpenAI(r)

\* generateBioWithRetry up to its first await, lines 140-146
generateBioWithRetry(r, maxRetries, baseDelay) ==
  generateBioWithOpenAI([r EXCEPT !.maxRetries = maxRetries,
                                  !.baseDelay = baseDelay,
                                  !.attempt = 1])

generateBio_entry_noGuard(r) ==
  IF truthy(env, "OPENAI_API_KEY") /\ openai
  THEN generateBioWithRetry(r, DefaultMaxRetries, DefaultBaseDelay)
  ELSE generateBioWithGemini(r, "geminiDirect")

generateBio_entry_template(r) ==
  IF truthy(env, "OPENAI_API_KEY") /\ openai
  THEN generateBioWithRetry(r, DefaultMaxRetries, DefaultBaseDelay)
  ELSE IF geminiModel
  THEN generateBioWithGemini(r, "geminiDirect")
  ELSE returns(r, <<"b">>)

\* generateBio up to its first await, lines 185-225
generateBio_entry(r) ==
  IF truthy(env, "OPENAI_API_KEY") /\ openai
  THEN generateBioWithRetry(r, DefaultMaxRetries, DefaultBaseDelay)
  ELSE IF geminiModel
  THEN generateBioWithGemini(r, "geminiDirect")
  ELSE throws(r, noServiceError)

----------------------------------------------------------------------------
(* getServiceStatus *)

getServiceStatus_and ==
  LET openaiConfigured == truthy(env, "OPENAI_API_KEY") /\ openai
      geminiConfigured == /\ truthy(env, "GEMINI_API_KEY")
                          /\ env["GEMINI_API_KEY"] # PLACEHOLDER
                          /\ geminiModel
  IN [ openai |-> openaiConfigured,
       gemini |-> geminiConfigured,
       hasAnyService |-> openaiConfigured /\ geminiConfigured,
       fallback |-> geminiConfigured ]

getServiceStatus_keyOnly ==
  LET openaiConfigured == truthy(env, "OPENAI_API_KEY") /\ openai
      geminiConfigured == truthy(env, "GEMINI_API_KEY")
  IN [ openai |-> openaiConfigured,
       gemini |-> geminiConfigured,
       hasAnyService |-> openaiConfigured \/ geminiConfigured,
       fallback |-> geminiConfigured ]

\* lines 231-243
getServiceStatus ==
  LET openaiConfigured == truthy(env, "OPENAI_API_KEY") /\ openai
      geminiConfigured == /\ truthy(env, "GEMINI_API_KEY")
                          /\ env["GEMINI_API_KEY"] # PLACEHOLDER
                          /\ geminiModel
  IN [ openai |-> openaiConfigured,
       gemini |-> geminiConfigured,
       hasAnyService |-> openaiConfigured \/ geminiConfigured,
       fallback |-> geminiConfigured ]

----------------------------------------------------------------------------
(* The database, the requests in progress and the rate-limit store *)

\* the roles collection: _id -> name (Role.initializeDefaultRoles)
Roles == [r1 |-> "ADMIN", r2 |-> "DEVELOPER"]

\* a well-formed ObjectId that names no role
UnknownRoleId == "r9"

\* the users collection at start: one stored user
InitUsers ==
  [u1 |-> [name |-> "Ann", email |-> <<"a", "@", "x">>, role |-> "r1",
           status |-> "ACTIVE", bio |-> <<"o", "l", "d">>]]

NoResponse == [kind |-> "none"]

\* a request slot with no request in it
IdleReq ==
  [ kind |-> "none", pc |-> "idle", ip |-> "", id |-> "", body |-> <<>>,
    normalizedEmail |-> <<>>, roleInfo |-> Undefined,
    shouldRegenerateBio |-> FALSE, user |-> Undefined, before |-> Undefined,
    bio |-> <<>>, res |-> NoResponse ]

IPs == {"ip1", "ip2"}

\* the MemoryStore of one rate limiter, the clock, and per client the
\* number of requests the limiter passed on since the clock last moved
InitRate ==
  [ now |-> 0,
    ticks |-> 0,
    hits |-> [ip \in IPs |-> 0],
    resetTime |-> [ip \in IPs |-> 0],
    passed |-> [ip \in IPs |-> 0],
    res |-> [ip \in IPs |-> NoResponse] ]

----------------------------------------------------------------------------
(* Actions *)

Init ==
  /\ env \in Envs
  /\ openai = constructor(env).openai
  /\ geminiModel = constructor(env).geminiModel
  /\ calls = [c \in CallIds |-> IdleCall]
  /\ lastStatus = Undefined
  /\ users = InitUsers
  /\ reqs = [q \in CallIds |-> IdleReq]
  /\ rate = InitRate

\* a caller invokes aiService.generateBio(name, role)
GenerateBio(c, name, role) ==
  /\ calls[c].pc \in {"idle", "done"}
  /\ calls' = [calls EXCEPT ![c] =
                 generateBio_entry([IdleCall EXCEPT !.name = name, !.role = role])]
  /\ UNCHANGED <<env, openai, geminiModel, lastStatus, users, reqs, rate>>

\* the OpenAI request resolves with a completion, lines 62-64
OpenAIResolved(c, resp) ==
  /\ calls[c].pc = "openai"
  /\ resp.kind \in {"completion", "nullcontent"}
  /\ LET r == [calls[c] EXCEPT !.outcomesA = Append(@, resp)] IN
     calls' = [calls EXCEPT ![c] =
                 IF resp.kind = "nullcontent"
                 THEN generateBioWithRetry_catch(r, TypeErrorNull)
                 ELSE generateBioWithRetry_try(r, trim(resp.content))]
  /\ UNCHANGED <<env, openai, geminiModel, lastStatus, users, reqs, rate>>

\* the OpenAI request rejects, lines 66-76
OpenAIRejected(c, resp) ==
  /\ calls[c].pc = "openai"
  /\ resp.kind = "error"
  /\ LET r == [calls[c] EXCEPT !.outcomesA = Append(@, resp)] IN
     calls' = [calls EXCEPT ![c] = generateBioWithRetry_catch(r, resp.error)]
  /\ UNCHANGED <<env, openai, geminiModel, lastStatus, users, reqs, rate>>

\* the backoff timer of sleep(delay) fires, line 169; attempt++ and the loop
\* test of line 143
SleepResolved(c) ==
  /\ calls[c].pc = "sleep"
  /\ LET r == [calls[c] EXCEPT !.attempt = @ + 1] IN
     calls' = [calls EXCEPT ![c] =
                 IF r.attempt <= r.maxRetries
                 THEN generateBioWithOpenAI(r)
                 ELSE generateBioWithRetry_exhausted(r)]
  /\ UNCHANGED <<env, openai, geminiModel, lastStatus, users, reqs, rate>>

\* the Gemini request resolves with a text, lines 104-108
GeminiResolved(c, resp) ==
  /\ calls[c].pc \in {"geminiFallback", "geminiDirect"}
  /\ resp.kind = "text"
  /\ LET r == [calls[c] EXCEPT !.outcomesB = Append(@, resp)] IN
     calls' = [calls EXCEPT ![c] = returns(r, trim(resp.content))]
  /\ UNCHANGED <<env, openai, geminiModel, lastStatus, users, reqs, rate>>

\* the Gemini request rejects, lines 110-120
GeminiRejected(c, resp) ==
  /\ calls[c].pc \in {"geminiFallback", "geminiDirect"}
  /\ resp.kind = "error"
  /\ LET r == [calls[c] EXCEPT !.outcomesB = Append(@, resp)] IN
     calls' = [calls EXCEPT ![c] = gemini_catch(r, r.pc, resp.error)]
  /\ UNCHANGED <<env, openai, geminiModel, lastStatus, users, reqs, rate>>

\* a caller invokes aiService.getServiceStatus()
GetServiceStatus ==
  /\ lastStatus' = getServiceStatus
  /\ UNCHANGED <<env, openai, geminiModel, calls, users, reqs, rate>>

\* a caller invokes aiService.generateBioWithRetry(name, role, maxRetries,
\* baseDelay) itself
GenerateBioWithRetry(c, name, role, maxRetries, baseDelay) ==
  /\ calls[c].pc \in {"idle", "done"}
  /\ LET r == [IdleCall EXCEPT !.entry = "generateBioWithRetry",
                               !.name = name, !.role = role]
     IN calls' = [calls EXCEPT ![c] =
          IF 1 <= maxRetries
          THEN generateBioWithRetry(r, maxRetries, baseDelay)
          ELSE generateBioWithRetry_exhausted(
                 [r EXCEPT !.maxRetries = maxRetries, !.baseDelay = baseDelay,
                           !.attempt = 1])]
  /\ UNCHANGED <<env, openai, geminiModel, lastStatus, users, reqs, rate>>

Next ==
  \/ \E c \in CallIds, name \in Names, role \in RoleNames : GenerateBio(c, name, role)
  \/ \E c \in CallIds, resp \in OpenAIResponses : OpenAIResolved(c, resp)
  \/ \E c \in CallIds, resp \in OpenAIResponses : OpenAIRejected(c, resp)
  \/ \E c \in CallIds : SleepResolved(c)
  \/ \E c \in CallIds, resp \in GeminiResponses : GeminiResolved(c, resp)
  \/ \E c \in CallIds, resp \in GeminiResponses : GeminiRejected(c, resp)
  \/ GetServiceStatus

Spec == Init /\ [][Next]_vars

----------------------------------------------------------------------------
(* Small answer sets for the specifications with more moving parts *)

SmallOpenAIResponses ==
  { [kind |-> "completion", content |-> <<" ", "b">>],
    [kind |-> "error",
     error |-> [message |-> <<"Rate limit reached">>, status |-> 429,
                code |-> "rate_limit_exceeded"]],
    [kind |-> "error",
     error |-> [message |-> <<"Incorrect API key provided">>, status |-> 401]] }

SmallGeminiResponses ==
  { [kind |-> "text", content |-> <<"b", " ">>],
    [kind |-> "error",
     error |-> [message |-> <<"Resource has been exhausted">>, status |-> 429]] }

\* environments in which every credential that is set is a real key
RealEnvs == {e \in Envs : \A n \in DOMAIN e : e[n] \in {"sk-key", "gm-key"}}

----------------------------------------------------------------------------
(* The service in a process whose environment is written after start-up:   *)
(* generateBio (line 187) and getServiceStatus (lines 232-234) read         *)
(* process.env at the time of the call.                                     *)

InitEnv ==
  /\ env \in RealEnvs
  /\ openai = constructor(env).openai
  /\ geminiModel = constructor(env).geminiModel
  /\ calls = [c \in CallIds |-> IdleCall]
  /\ lastStatus = Undefined
  /\ users = InitUsers
  /\ reqs = [q \in CallIds |-> IdleReq]
  /\ rate = InitRate

\* some code of the process assigns or deletes a credential variable
SetEnv(e) ==
  /\ e # env
  /\ env' = e
  /\ UNCHANGED <<openai, geminiModel, calls, lastStatus, users, reqs, rate>>

NextEnv ==
  \/ \E e \in RealEnvs : SetEnv(e)
  \/ \E c \in DOMAIN calls, name \in Names, role \in RoleNames : GenerateBio(c, name, role)
  \/ \E c \in DOMAIN calls, resp \in SmallOpenAIResponses : OpenAIResolved(c, resp)
  \/ \E c \in DOMAIN calls, resp \in SmallOpenAIResponses : OpenAIRejected(c, resp)
  \/ \E c \in DOMAIN calls : SleepResolved(c)
  \/ \E c \in DOMAIN calls, resp \in SmallGeminiResponses : GeminiResolved(c, resp)
  \/ \E c \in DOMAIN calls, resp \in SmallGeminiResponses : GeminiRejected(c, resp)
  \/ GetServiceStatus

SpecEnv == InitEnv /\ [][NextEnv]_vars

----------------------------------------------------------------------------
(* Concurrent generateBio invocations on the one exported AIService *)

\* number of generateBio invocations pending together
NumConcCalls == 2

InitConc ==
  /\ env = [n \in EnvNames |-> IF n = "OPENAI_API_KEY" THEN "sk-key" ELSE "gm-key"]
  /\ openai = constructor(env).openai
  /\ geminiModel = constructor(env).geminiModel
  /\ calls = [c \in 1..NumConcCalls |-> IdleCall]
  /\ lastStatus = Undefined
  /\ users = InitUsers
  /\ reqs = [q \in 1..NumConcCalls |-> IdleReq]
  /\ rate = InitRate

NextConc ==
  \/ \E c \in DOMAIN calls, name \in Names, role \in RoleNames : GenerateBio(c, name, role)
  \/ \E c \in DOMAIN calls, resp \in SmallOpenAIResponses : OpenAIResolved(c, resp)
  \/ \E c \in DOMAIN calls, resp \in SmallOpenAIResponses : OpenAIRejected(c, resp)
  \/ \E c \in DOMAIN calls : SleepResolved(c)
  \/ \E c \in DOMAIN calls, resp \in SmallGeminiResponses : GeminiResolved(c, resp)
  \/ \E c \in DOMAIN calls, resp \in SmallGeminiResponses : GeminiRejected(c, resp)

SpecConc == InitConc /\ [][NextConc]_vars

----------------------------------------------------------------------------
(* generateBioWithRetry with the settings its caller chooses, called       *)
(* through generateBio (defaults) or by itself, OpenAI configured          *)

\* largest maxRetries a caller passes
MaxMaxRetries == 4

\* a base delay other than the default, which the calls through generateBio use
BaseDelays == {250}

RetryOpenAIResponses == SmallOpenAIResponses \cup {[kind |-> "nullcontent"]}

InitRetry ==
  /\ env \in {e \in RealEnvs : truthy(e, "OPENAI_API_KEY")}
  /\ openai = constructor(env).openai
  /\ geminiModel = constructor(env).geminiModel
  /\ calls = [c \in CallIds |-> IdleCall]
  /\ lastStatus = Undefined
  /\ users = InitUsers
  /\ reqs = [q \in CallIds |-> IdleReq]
  /\ rate = InitRate

NextRetry ==
  \/ \E c \in DOMAIN calls, name \in Names, role \in RoleNames : GenerateBio(c, name, role)
  \/ \E c \in DOMAIN calls, name \in Names, role \in RoleNames,
        maxRetries \in 1..MaxMaxRetries, baseDelay \in BaseDelays :
       GenerateBioWithRetry(c, name, role, maxRetries, baseDelay)
  \/ \E c \in DOMAIN calls, resp \in RetryOpenAIResponses : OpenAIResolved(c, resp)
  \/ \E c \in DOMAIN calls, resp \in RetryOpenAIResponses : OpenAIRejected(c, resp)
  \/ \E c \in DOMAIN calls : SleepResolved(c)
  \/ \E c \in DOMAIN calls, resp \in SmallGeminiResponses : GeminiResolved(c, resp)
  \/ \E c \in DOMAIN calls, resp \in SmallGeminiResponses : GeminiRejected(c, resp)

SpecRetry == InitRetry /\ [][NextRetry]_vars

----------------------------------------------------------------------------
(* The service when every awaited promise settles: each provider request   *)
(* is answered and each backoff timer fires                                *)

InitLive == Init

NextLive ==
  \/ \E c \in DOMAIN calls, name \in Names, role \in RoleNames : GenerateBio(c, name, role)
  \/ \E c \in DOMAIN calls, resp \in RetryOpenAIResponses : OpenAIResolved(c, resp)
  \/ \E c \in DOMAIN calls, resp \in RetryOpenAIResponses : OpenAIRejected(c, resp)
  \/ \E c \in DOMAIN calls : SleepResolved(c)
  \/ \E c \in DOMAIN calls, resp \in SmallGeminiResponses : GeminiResolved(c, resp)
  \/ \E c \in DOMAIN calls, resp \in SmallGeminiResponses : GeminiRejected(c, resp)

\* the promise call c awaits settles
Settle(c) ==
  \/ \E resp \in RetryOpenAIResponses : OpenAIResolved(c, resp) \/ OpenAIRejected(c, resp)
  \/ SleepResolved(c)
  \/ \E resp \in SmallGeminiResponses : GeminiResolved(c, resp) \/ GeminiRejected(c, resp)

SpecLive ==
  InitLive /\ [][NextLive]_vars /\ \A c \in CallIds : WF_vars(Settle(c))

----------------------------------------------------------------------------
(* Vocabulary of the properties *)

\* the credential of Provider A (OpenAI) is present
ProviderAConfigured == truthy(env, "OPENAI_API_KEY")

\* the credential of Provider B (Gemini) is present and is not the placeholder
ProviderBConfigured ==
  truthy(env, "GEMINI_API_KEY") /\ env["GEMINI_API_KEY"] # "your_gemini_api_key_here"

Succeeded(o) == o.kind = "completion"

Failed(o) == o.kind \in {"error", "nullcontent"}

\* the error an unsuccessful Provider A attempt ended with
ErrorOf(o) == IF o.kind = "error" THEN o.error ELSE TypeErrorNull

HasStatus(e, n) == "status" \in DOMAIN e /\ e.status = n

HasCode(e, k) == "code" \in DOMAIN e /\ e.code = k

AuthClass(e) ==
  HasStatus(e, 401) \/ HasStatus(e, 403) \/ HasCode(e, "invalid_api_key")

Transient(o) == Failed(o) /\ ~AuthClass(ErrorOf(o))

Returned(r, v) == r.pc = "done" /\ r.result = [kind |-> "return", value |-> v]

Threw(r, e) == r.pc = "done" /\ r.result = [kind |-> "throw", error |-> e]

\* Provider A's retrying call has ended in failure
RetryFailed(r) ==
  /\ r.outcomesA # <<>>
  /\ \A i \in 1..Len(r.outcomesA) : Failed(r.outcomesA[i])
  /\ \/ AuthClass(ErrorOf(r.outcomesA[Len(r.outcomesA)]))
     \/ Len(r.outcomesA) = 3

----------------------------------------------------------------------------
(* Properties *)

\* C1: when Provider A is configured and its first attempt succeeds,
\* generateBio returns the (trimmed) text of that attempt, after one Provider A
\* call, no backoff wait and no Provider B call.
C1_FirstAttemptSuccess ==
  \A c \in CallIds :
    LET r == calls[c] IN
    (ProviderAConfigured /\ Len(r.outcomesA) >= 1 /\ Succeeded(r.outcomesA[1]))
      => /\ Returned(r, trim(r.outcomesA[1].content))
         /\ r.callsA = 1
         /\ r.delays = <<>>
         /\ r.callsB = 0

C1_Witness ==
  \E c \in CallIds :
    /\ ProviderAConfigured /\ ProviderBConfigured
    /\ calls[c].outcomesA = <<[kind |-> "completion", content |-> <<" ", "b">>]>>
    /\ Returned(calls[c], <<"b">>)

\* C2: with the default settings, transient failures of attempts 1 and 2
\* followed by a success of attempt 3 make generateBio return the attempt-3
\* text after waits of 1000 ms and then 2000 ms, with no Provider B call.
C2_ThirdAttemptSuccess ==
  \A c \in CallIds :
    LET r == calls[c] IN
    ( /\ Len(r.outcomesA) = 3
      /\ Transient(r.outcomesA[1]) /\ Transient(r.outcomesA[2])
      /\ Succeeded(r.outcomesA[3]) )
      => /\ Returned(r, trim(r.outcomesA[3].content))
         /\ r.delays = <<1000, 2000>>
         /\ r.callsA = 3
         /\ r.callsB = 0

C2_Witness ==
  \E c \in CallIds :
    LET r == calls[c] IN
    /\ ProviderBConfigured
    /\ Len(r.outcomesA) = 3
    /\ HasStatus(ErrorOf(r.outcomesA[1]), 429) /\ r.outcomesA[2].kind = "nullcontent"
    /\ Succeeded(r.outcomesA[3])
    /\ r.pc = "done" /\ r.result.kind = "return"

\* C3: an authentication-class failure (status 401, status 403 or code
\* invalid_api_key) of the first Provider A attempt ends Provider A's part
\* after exactly one call, and Provider B, if configured, is called exactly
\* once as fallback (and not at all if it is not configured).
C3_AuthErrorNoRetry ==
  \A c \in CallIds :
    LET r == calls[c] IN
    ( /\ ProviderAConfigured
      /\ Len(r.outcomesA) >= 1
      /\ Failed(r.outcomesA[1]) /\ AuthClass(ErrorOf(r.outcomesA[1])) )
      => /\ r.callsA = 1
         /\ Len(r.outcomesA) = 1
         /\ r.delays = <<>>
         /\ r.callsB = (IF ProviderBConfigured THEN 1 ELSE 0)
         /\ r.pc \in {"geminiFallback", "done"}

C3_Witness ==
  \E c \in CallIds :
    LET r == calls[c] IN
    /\ ProviderBConfigured
    /\ Len(r.outcomesA) = 1
    /\ Failed(r.outcomesA[1]) /\ HasStatus(ErrorOf(r.outcomesA[1]), 403)
    /\ r.callsB = 1 /\ r.pc = "done"

\* C4: when all 3 Provider A attempts fail with transient errors and the one
\* Provider B fallback call fails too, generateBio fails with the
\* "Bio generation failed" error, whose message contains the message of
\* Provider A's last error and the message of Provider B's error.
C4_BothFailed ==
  \A c \in CallIds :
    LET r == calls[c] IN
    ( /\ Len(r.outcomesA) = 3
      /\ \A i \in 1..3 : Transient(r.outcomesA[i])
      /\ Len(r.outcomesB) = 1 /\ r.outcomesB[1].kind = "error" )
      => /\ r.pc = "done" /\ r.result.kind = "throw"
         /\ StartsWith(r.result.error.message, <<"Bio generation failed: OpenAI (">>)
         /\ Contains(r.result.error.message, ErrorOf(r.outcomesA[3]).message)
         /\ Contains(r.result.error.message, r.outcomesB[1].error.message)
         /\ r.callsA = 3 /\ r.callsB = 1

C4_Witness ==
  \E c \in CallIds :
    LET r == calls[c] IN
    /\ Len(r.outcomesA) = 3
    /\ HasStatus(ErrorOf(r.outcomesA[1]), 429)
    /\ r.outcomesA[3].kind = "nullcontent"
    /\ Len(r.outcomesB) = 1 /\ r.outcomesB[1].kind = "error"
    /\ r.pc = "done" /\ r.result.kind = "throw"

\* C5: when Provider A's retrying call ends in failure and Provider B is not
\* configured, generateBio fails with Provider A's last error itself: same
\* message, status and code.
C5_PropagatesOriginalError ==
  \A c \in CallIds :
    LET r == calls[c] IN
    (ProviderAConfigured /\ ~ProviderBConfigured /\ RetryFailed(r))
      => /\ Threw(r, ErrorOf(r.outcomesA[Len(r.outcomesA)]))
         /\ r.callsB = 0

C5_Witness ==
  \E c \in CallIds :
    LET r == calls[c] IN
    /\ ProviderAConfigured /\ ~ProviderBConfigured
    /\ Len(r.outcomesA) = 3 /\ RetryFailed(r)
    /\ HasStatus(r.result.error, 429) /\ HasCode(r.result.error, "rate_limit_exceeded")

\* C6: when only Provider B is configured, a generateBio call makes exactly
\* one Provider B call and no Provider A call, with no retry attempt and no
\* backoff wait, whether the Provider B call succeeds or fails.
C6_DirectProviderB ==
  \A c \in CallIds :
    LET r == calls[c] IN
    (~ProviderAConfigured /\ ProviderBConfigured /\ r.pc # "idle")
      => /\ r.callsB = 1
         /\ r.callsA = 0
         /\ r.attempt = 0
         /\ r.delays = <<>>
         /\ r.pc \in {"geminiDirect", "done"}
         /\ (r.pc = "done") = (Len(r.outcomesB) = 1)

C6_Witness ==
  \E c \in CallIds :
    LET r == calls[c] IN
    /\ ~ProviderAConfigured /\ ProviderBConfigured
    /\ r.pc = "done" /\ r.result.kind = "throw"
    /\ r.outcomesB = <<[kind |-> "error", error |-> r.result.error]>>

\* C7: when neither provider is configured, generateBio fails with the
\* "No AI service is configured" error and makes no provider call.
C7_NoProviderConfigured ==
  \A c \in CallIds :
    LET r == calls[c] IN
    (~ProviderAConfigured /\ ~ProviderBConfigured /\ r.pc # "idle")
      => /\ r.pc = "done" /\ r.result.kind = "throw"
         /\ StartsWith(r.result.error.message,
                       <<"No AI service is configured. Please set either OPENAI_API_KEY or GEMINI_API_KEY environment variable.">>)
         /\ r.callsA = 0 /\ r.callsB = 0
         /\ r.outcomesA = <<>> /\ r.outcomesB = <<>>

C7_Witness ==
  \E c \in CallIds :
    /\ "GEMINI_API_KEY" \in DOMAIN env /\ env["GEMINI_API_KEY"] = "your_gemini_api_key_here"
    /\ ~ProviderAConfigured
    /\ calls[c].pc = "done"

\* C8: the status getServiceStatus reports follows the two credentials:
\* openai iff the Provider A key is present, gemini iff the Provider B key is
\* present and is not the placeholder, hasAnyService = openai or gemini,
\* fallback = gemini.
C8_StatusReflectsConfiguration ==
  lastStatus # Undefined
    => /\ lastStatus.openai = ProviderAConfigured
       /\ lastStatus.gemini = ProviderBConfigured
       /\ lastStatus.hasAnyService = (ProviderAConfigured \/ ProviderBConfigured)
       /\ lastStatus.fallback = ProviderBConfigured

C8_Witness ==
  /\ lastStatus # Undefined
  /\ ProviderAConfigured
  /\ "GEMINI_API_KEY" \in DOMAIN env /\ env["GEMINI_API_KEY"] = "your_gemini_api_key_here"
  /\ lastStatus.hasAnyService /\ ~lastStatus.fallback

C10_AlwaysBio ==
  \A c \in CallIds :
    calls[c].pc = "done" => calls[c].result.kind = "return"

\* C13: on every failure path of generateBio that stems from a provider
\* failure, the error delivered to the caller carries the status and the code
\* of an underlying provider failure (the last Provider A error or the
\* Provider B error).
C13_ErrorIdentityPreserved ==
  \A c \in DOMAIN calls :
    LET r == calls[c]
        lastA == IF r.outcomesA # <<>> /\ Failed(r.outcomesA[Len(r.outcomesA)])
                 THEN {ErrorOf(r.outcomesA[Len(r.outcomesA)])} ELSE {}
        lastB == IF r.outcomesB # <<>> /\ r.outcomesB[Len(r.outcomesB)].kind = "error"
                 THEN {r.outcomesB[Len(r.outcomesB)].error} ELSE {}
        same(e, f) == /\ ("status" \in DOMAIN e) = ("status" \in DOMAIN f)
                      /\ ("status" \in DOMAIN e => e.status = f.status)
                      /\ ("code" \in DOMAIN e) = ("code" \in DOMAIN f)
                      /\ ("code" \in DOMAIN e => e.code = f.code)
    IN (r.pc = "done" /\ r.result.kind = "throw" /\ lastA \cup lastB # {})
         => \E e \in lastA \cup lastB : same(r.result.error, e)

\* C14: generateBio never resolves with an empty string: a returned value is
\* a non-empty biography.
C14_NeverEmptyBio ==
  \A c \in DOMAIN calls :
    (calls[c].pc = "done" /\ calls[c].result.kind = "return")
      => calls[c].result.value # <<>>

RECURSIVE SumSeq(_)
SumSeq(s) == IF s = <<>> THEN 0 ELSE Head(s) + SumSeq(Tail(s))

\* the worst case of one call: every Provider A attempt failed with a
\* retryable error and the fallback call to Provider B was made
WorstCase(r) ==
  /\ Len(r.outcomesA) = 3
  /\ \A i \in 1..3 : Transient(r.outcomesA[i])
  /\ r.callsB = 1

\* C16 as stated: in the worst case of a call at default settings the backoff
\* waits are 1000, 2000 and 4000 ms, about 7 seconds in all.
C16_WorstCaseSevenSeconds ==
  \A c \in DOMAIN calls :
    WorstCase(calls[c])
      => calls[c].delays = <<1000, 2000, 4000>> /\ SumSeq(calls[c].delays) = 7000

\* C16 amended: at default settings one generateBio call makes at most 3
\* Provider A calls and at most one Provider B call, and its backoff waits
\* are 1000 ms then 2000 ms, 3 seconds in all in the worst case: no wait
\* follows the last attempt.
C16_WorstCaseThreeSeconds ==
  \A c \in DOMAIN calls :
    LET r == calls[c] IN
    /\ r.callsA <= 3
    /\ r.callsB <= 1
    /\ SumSeq(r.delays) <= 3000
    /\ r.delays \in {<<>>, <<1000>>, <<1000, 2000>>}
    /\ (WorstCase(r) => r.callsA = 3 /\ r.delays = <<1000, 2000>>)

C16_Witness ==
  \E c \in DOMAIN calls :
    /\ WorstCase(calls[c])
    /\ calls[c].pc = "done"
    /\ SumSeq(calls[c].delays) = 3000

\* C15 as stated: the configuration is the one resolved when the service was
\* constructed, whatever happens to the environment afterwards: a status
\* report names exactly the providers whose client was constructed, and a
\* generateBio call goes to Provider A iff its client was constructed.
C15_ConfigurationReadOnly ==
  /\ lastStatus # Undefined
       => lastStatus.openai = openai /\ lastStatus.gemini = geminiModel
  /\ \A c \in DOMAIN calls :
       calls[c].pc # "idle" => (calls[c].callsA >= 1) = openai

\* what one call's own provider answers determine
OwnState(r) ==
  LET nA == Len(r.outcomesA)
      failedA == {i \in 1..nA : Failed(r.outcomesA[i])}
      transientA == {i \in 1..nA : Transient(r.outcomesA[i])}
      k == IF Cardinality(transientA) < 2 THEN Cardinality(transientA) ELSE 2
  IN r.pc # "idle" =>
       /\ r.callsA = nA + (IF r.pc = "openai" THEN 1 ELSE 0)
       /\ r.callsB = Len(r.outcomesB)
                     + (IF r.pc \in {"geminiFallback", "geminiDirect"} THEN 1 ELSE 0)
       /\ r.delays = SubSeq(<<1000, 2000>>, 1, k)
       /\ r.lastError = (IF failedA = {} THEN Undefined
                          ELSE ErrorOf(r.outcomesA[CHOOSE i \in failedA :
                                                     \A j \in failedA : j <= i]))
       /\ (r.pc = "openai" => r.attempt = r.callsA)
       /\ (r.pc = "sleep" => r.attempt = nA)
       /\ (r.pc = "done" /\ nA >= 1 /\ Succeeded(r.outcomesA[nA])
             => Returned(r, trim(r.outcomesA[nA].content)))
       /\ (r.pc = "done" /\ r.outcomesB # <<>> /\ r.outcomesB[1].kind = "text"
             => Returned(r, trim(r.outcomesB[1].content)))
       /\ (r.pc = "done" /\ r.outcomesB # <<>> /\ r.outcomesB[1].kind = "error"
             => r.result.kind = "throw")

\* C17: under every interleaving of concurrent generateBio calls, the attempt
\* counter, last error, provider call counts, waits and outcome of each call
\* follow from its own provider answers alone, a step of one call changes no
\* other call, and while one call is in a backoff wait every other call can
\* take its next step.
C17_NoSharedState ==
  /\ [](\A c \in DOMAIN calls : OwnState(calls[c]))
  /\ [][\A c \in DOMAIN calls :
          calls'[c] # calls[c]
            => \A d \in DOMAIN calls \ {c} : calls'[d] = calls[d]]_vars
  /\ [](\A c \in DOMAIN calls : \A d \in DOMAIN calls \ {c} :
          calls[c].pc = "sleep" =>
            /\ (calls[d].pc = "openai" =>
                  \A resp \in SmallOpenAIResponses :
                    ENABLED (OpenAIResolved(d, resp) \/ OpenAIRejected(d, resp)))
            /\ (calls[d].pc \in {"idle", "done"} =>
                  ENABLED GenerateBio(d, "Ann", "Engineer"))
            /\ (calls[d].pc = "sleep" => ENABLED SleepResolved(d)))

\* one call is in its second backoff wait while another call, started with
\* it, has completed through its own three attempts and the fallback
C17_Witness ==
  \E c \in DOMAIN calls : \E d \in DOMAIN calls \ {c} :
    /\ calls[c].pc = "sleep" /\ calls[c].delays = <<1000, 2000>>
    /\ calls[d].pc = "done" /\ calls[d].callsA = 3 /\ calls[d].callsB = 1
    /\ calls[d].result.kind = "return"

----------------------------------------------------------------------------
(* userController.js: createUser, updateUser, getAIStatus                  *)
(* Request q uses the generateBio activation calls[q].                     *)

\* most users the collection holds
MaxUsers == 2

UserIds == {"u1", "u2", "u3", "u4"}

\* String.prototype.toLowerCase
lowerChar(ch) == IF ch = "A" THEN "a" ELSE IF ch = "B" THEN "b" ELSE ch

toLowerCase(s) == [i \in 1..Len(s) |-> lowerChar(s[i])]

AlnumChars == {"a", "b", "x", "A", "B"}

\* emailRegex.test of line 41 on the characters of the model: a non-empty
\* local part, one @, a non-empty alphanumeric domain
emailRegexTest(s) ==
  \E i \in 2..(Len(s) - 1) :
    /\ s[i] = "@"
    /\ \A j \in 1..(i - 1) : s[j] \in AlnumChars
    /\ \A j \in (i + 1)..Len(s) : s[j] \in AlnumChars

EmailInputs ==
  { <<" ">>, <<"b">>, <<"b", "@", "x">>, <<" ", "A", "@", "x">> }

CreateBodies ==
  {[name |-> "Ann", email |-> e, role |-> "r1"] : e \in EmailInputs}
    \cup {[name |-> "Ann", email |-> <<"b", "@", "x">>, role |-> UnknownRoleId]}

UpdateBodies ==
  { [role |-> "r1"], [role |-> "r2"], [role |-> UnknownRoleId],
    [name |-> "Bob"] }

\* ids of PUT /api/users/:id : a stored user and a well-formed id of no user
UpdateIds == {"u1", "u4"}

json(status, body) == [kind |-> "json", status |-> status, body |-> body]

nextError(error) == [kind |-> "next", error |-> error]

\* the duplicate key error of the unique index on email (User.js line 14)
DuplicateKeyError ==
  [message |-> <<"E11000 duplicate key error collection: users index: email_1">>,
   code |-> "11000"]

\* userSchema.methods.getPublicProfile with the role populated
getPublicProfile(id, doc) ==
  [ id |-> id, name |-> doc.name,
    role |-> [id |-> doc.role, name |-> Roles[doc.role]],
    email |-> doc.email, status |-> doc.status, bio |-> doc.bio ]

finish(r, res) == [r EXCEPT !.pc = "done", !.res = res]

\* aiService.generateBio(name, roleName) is called: its run up to its first
\* await belongs to the step that calls it
callGenerateBio(name, roleName) ==
  generateBio_entry([IdleCall EXCEPT !.name = name, !.role = roleName])

\* createUser, lines 12-65: the email checks, then await User.findOne
CreateUser(q, ip, body) ==
  /\ reqs[q].pc \in {"idle", "done"}
  /\ Cardinality(DOMAIN users) < MaxUsers
  /\ LET r0 == [IdleReq EXCEPT !.kind = "createUser", !.ip = ip, !.body = body]
         email == body.email
         normalizedEmail == toLowerCase(trim(email))
     IN reqs' = [reqs EXCEPT ![q] =
          IF email = <<>> \/ trim(email) = <<>>
          THEN finish(r0, json(400, [success |-> FALSE,
                                     error |-> "Email is required and cannot be empty"]))
          ELSE IF ~emailRegexTest(normalizedEmail)
          THEN finish(r0, json(400, [success |-> FALSE,
                                     error |-> "Please provide a valid email address format"]))
          ELSE IF Len(normalizedEmail) > 254
          THEN finish(r0, json(400, [success |-> FALSE,
                                     error |-> "Email address is too long (maximum 254 characters)"]))
          ELSE [r0 EXCEPT !.pc = "findOne", !.normalizedEmail = normalizedEmail]]
  /\ calls' = [calls EXCEPT ![q] = IdleCall]
  /\ UNCHANGED <<env, openai, geminiModel, lastStatus, users, rate>>

\* the conflict response of lines 74-81
conflictResponse(normalizedEmail) ==
  json(409, [success |-> FALSE,
             error |-> "A user with this email address already exists",
             details |-> [conflictField |-> "email",
                          conflictValue |-> normalizedEmail]])

CreateUser_afterFindOne_noUniquenessCheck(q) ==
  /\ reqs[q].kind = "createUser" /\ reqs[q].pc = "findOne"
  /\ reqs' = [reqs EXCEPT ![q] = [reqs[q] EXCEPT !.pc = "findRole"]]
  /\ UNCHANGED <<env, openai, geminiModel, lastStatus, users, rate, calls>>

\* createUser, lines 63-88: the answer of User.findOne, then await
\* Role.findById
CreateUser_afterFindOne(q) ==
  /\ reqs[q].kind = "createUser" /\ reqs[q].pc = "findOne"
  /\ LET r == reqs[q]
         existing == {u \in DOMAIN users :
                        toLowerCase(users[u].email) = toLowerCase(r.normalizedEmail)}
     IN reqs' = [reqs EXCEPT ![q] =
          IF existing # {}
          THEN finish(r, conflictResponse(r.normalizedEmail))
          ELSE [r EXCEPT !.pc = "findRole"]]
  /\ UNCHANGED <<env, openai, geminiModel, lastStatus, users, rate, calls>>

\* createUser, lines 88-110: the answer of Role.findById, then
\* await aiService.generateBio(name, roleInfo.name)
CreateUser_afterFindRole(q) ==
  /\ reqs[q].kind = "createUser" /\ reqs[q].pc = "findRole"
  /\ LET r == reqs[q] IN
     IF r.body.role \notin DOMAIN Roles
     THEN /\ reqs' = [reqs EXCEPT ![q] =
                 finish(r, json(400, [success |-> FALSE,
                                      error |-> "Invalid role ID provided"]))]
          /\ UNCHANGED calls
     ELSE /\ reqs' = [reqs EXCEPT ![q] =
                 [r EXCEPT !.pc = "bio",
                           !.roleInfo = [id |-> r.body.role, name |-> Roles[r.body.role]]]]
          /\ calls' = [calls EXCEPT ![q] = callGenerateBio(r.body.name, Roles[r.body.role])]
  /\ UNCHANGED <<env, openai, geminiModel, lastStatus, users, rate>>

createUser_afterBio_emptyBio(r, result) ==
  IF result.kind = "return"
  THEN [r EXCEPT !.pc = "create", !.bio = result.value]
  ELSE [r EXCEPT !.pc = "create", !.bio = <<>>]

\* createUser, lines 110-128 and 172-190: generateBio has settled; a value
\* goes on to await User.create, an error is rethrown to next(error)
createUser_afterBio(r, result) ==
  IF result.kind = "return"
  THEN [r EXCEPT !.pc = "create", !.bio = result.value]
  ELSE finish(r, nextError(result.error))

CreateUser_afterBio(q) ==
  /\ reqs[q].kind = "createUser" /\ reqs[q].pc = "bio"
  /\ calls[q].pc = "done"
  /\ reqs' = [reqs EXCEPT ![q] = createUser_afterBio(reqs[q], calls[q].result)]
  /\ UNCHANGED <<env, openai, geminiModel, lastStatus, users, rate, calls>>

\* createUser, lines 128-147: User.create inserts unless the unique index on
\* email rejects the document, then await user.populate
CreateUser_afterCreate(q) ==
  /\ reqs[q].kind = "createUser" /\ reqs[q].pc = "create"
  /\ LET r == reqs[q]
         doc == [name |-> r.body.name, email |-> toLowerCase(trim(r.normalizedEmail)),
                 role |-> r.roleInfo.id, status |-> "ACTIVE", bio |-> trim(r.bio)]
         id == CHOOSE u \in UserIds : u \notin DOMAIN users
     IN IF \E u \in DOMAIN users : users[u].email = doc.email
        THEN /\ reqs' = [reqs EXCEPT ![q] = finish(r, nextError(DuplicateKeyError))]
             /\ UNCHANGED users
        ELSE /\ users' = [u \in DOMAIN users \cup {id} |->
                            IF u = id THEN doc ELSE users[u]]
             /\ reqs' = [reqs EXCEPT ![q] =
                           [r EXCEPT !.pc = "populate", !.id = id, !.user = doc]]
  /\ UNCHANGED <<env, openai, geminiModel, lastStatus, rate, calls>>

\* createUser, lines 147-170: the 201 response
CreateUser_afterPopulate(q) ==
  /\ reqs[q].kind = "createUser" /\ reqs[q].pc = "populate"
  /\ LET r == reqs[q] IN
     reqs' = [reqs EXCEPT ![q] =
       finish(r, json(201, [success |-> TRUE, message |-> "User created successfully",
                            data |-> getPublicProfile(r.id, r.user)]))]
  /\ UNCHANGED <<env, openai, geminiModel, lastStatus, users, rate, calls>>

\* updateUser, lines 371-395: with a role in the body await Role.findById,
\* otherwise await User.findByIdAndUpdate at once
UpdateUser(q, id, body) ==
  /\ reqs[q].pc \in {"idle", "done"}
  /\ LET r0 == [IdleReq EXCEPT !.kind = "updateUser", !.id = id, !.body = body] IN
     reqs' = [reqs EXCEPT ![q] =
       IF "role" \in DOMAIN body
       THEN [r0 EXCEPT !.pc = "findRole"]
       ELSE [r0 EXCEPT !.pc = "update"]]
  /\ calls' = [calls EXCEPT ![q] = IdleCall]
  /\ UNCHANGED <<env, openai, geminiModel, lastStatus, users, rate>>

\* updateUser, lines 385-399: the answer of Role.findById
UpdateUser_afterFindRole(q) ==
  /\ reqs[q].kind = "updateUser" /\ reqs[q].pc = "findRole"
  /\ LET r == reqs[q] IN
     reqs' = [reqs EXCEPT ![q] =
       IF r.body.role \notin DOMAIN Roles
       THEN finish(r, json(400, [success |-> FALSE, error |-> "Invalid role ID provided"]))
       ELSE [r EXCEPT !.pc = "update", !.shouldRegenerateBio = TRUE,
                      !.roleInfo = [id |-> r.body.role, name |-> Roles[r.body.role]]]]
  /\ UNCHANGED <<env, openai, geminiModel, lastStatus, users, rate, calls>>

\* updateUser, lines 395-412 and 421-427: User.findByIdAndUpdate writes the
\* fields of the body and answers the new document; with a role in the body
\* await aiService.generateBio(user.name, roleInfo.name), else respond
UpdateUser_afterUpdate(q) ==
  /\ reqs[q].kind = "updateUser" /\ reqs[q].pc = "update"
  /\ LET r == reqs[q] IN
     IF r.id \notin DOMAIN users
     THEN /\ reqs' = [reqs EXCEPT ![q] =
                 finish(r, json(404, [success |-> FALSE, error |-> "User not found"]))]
          /\ UNCHANGED <<users, calls>>
     ELSE LET old == users[r.id]
              new == [f \in DOMAIN old |->
                        IF f \in DOMAIN r.body THEN r.body[f] ELSE old[f]]
              r1 == [r EXCEPT !.user = new, !.before = old]
          IN /\ users' = [users EXCEPT ![r.id] = new]
             /\ IF r.shouldRegenerateBio /\ r.roleInfo # Undefined
                THEN /\ reqs' = [reqs EXCEPT ![q] = [r1 EXCEPT !.pc = "bio"]]
                     /\ calls' = [calls EXCEPT ![q] =
                                    callGenerateBio(new.name, r.roleInfo.name)]
                ELSE /\ reqs' = [reqs EXCEPT ![q] =
                          finish(r1, json(200, [success |-> TRUE,
                                                message |-> "User updated successfully",
                                                data |-> getPublicProfile(r.id, new)]))]
                     /\ UNCHANGED calls
  /\ UNCHANGED <<env, openai, geminiModel, lastStatus, rate>>

updateUser_afterBio_failRequest(r, result) ==
  IF result.kind = "return"
  THEN [r EXCEPT !.pc = "save", !.user = [r.user EXCEPT !.bio = result.value]]
  ELSE finish(r, nextError(result.error))

\* updateUser, lines 412-427: generateBio has settled; a value is assigned to
\* user.bio and await user.save(), an error is logged and the response sent
updateUser_afterBio(r, result) ==
  IF result.kind = "return"
  THEN [r EXCEPT !.pc = "save", !.user = [r.user EXCEPT !.bio = result.value]]
  ELSE finish(r, json(200, [success |-> TRUE,
                            message |-> "User updated successfully",
                            data |-> getPublicProfile(r.id, r.user)]))

UpdateUser_afterBio(q) ==
  /\ reqs[q].kind = "updateUser" /\ reqs[q].pc = "bio"
  /\ calls[q].pc = "done"
  /\ reqs' = [reqs EXCEPT ![q] = updateUser_afterBio(reqs[q], calls[q].result)]
  /\ UNCHANGED <<env, openai, geminiModel, lastStatus, users, rate, calls>>

\* updateUser, lines 414-427: user.save() has written the modified bio
UpdateUser_afterSave(q) ==
  /\ reqs[q].kind = "updateUser" /\ reqs[q].pc = "save"
  /\ LET r == reqs[q]
         saved == [r.user EXCEPT !.bio = trim(r.user.bio)]
     IN /\ users' = [users EXCEPT ![r.id].bio = saved.bio]
        /\ reqs' = [reqs EXCEPT ![q] =
             finish([r EXCEPT !.user = saved],
                    json(200, [success |-> TRUE,
                               message |-> "User updated successfully",
                               data |-> getPublicProfile(r.id, saved)]))]
  /\ UNCHANGED <<env, openai, geminiModel, lastStatus, rate, calls>>

\* the value of a property of a JS object: undefined when it has none
property(obj, f) == IF f \in DOMAIN obj THEN [value |-> obj[f]] ELSE Undefined

\* a || b for a boolean a
jsOr(a, b) == IF a THEN [value |-> a] ELSE b

\* getAIStatus, lines 474-491
GetAIStatus(q) ==
  /\ reqs[q].pc \in {"idle", "done"}
  /\ LET status == getServiceStatus IN
     reqs' = [reqs EXCEPT ![q] =
       finish([IdleReq EXCEPT !.kind = "getAIStatus"],
              json(200, [success |-> TRUE,
                         message |-> "AI service status retrieved",
                         data |-> [services |-> status,
                                   configured |-> jsOr(status.openai,
                                                       property(status, "huggingface"))]]))]
  /\ calls' = [calls EXCEPT ![q] = IdleCall]
  /\ UNCHANGED <<env, openai, geminiModel, lastStatus, users, rate>>

\* the answers of the providers to the requests of the controller's calls
CtlOpenAIResponses ==
  { [kind |-> "completion", content |-> <<" ", "b">>],
    [kind |-> "error",
     error |-> [message |-> <<"Rate limit reached">>, status |-> 429,
                code |-> "rate_limit_exceeded"]] }

CtlGeminiResponses ==
  { [kind |-> "text", content |-> <<"b", " ">>],
    [kind |-> "error",
     error |-> [message |-> <<"Resource has been exhausted">>, status |-> 429]] }

\* the deployments of the controller: Gemini alone, or OpenAI with Gemini
CtlEnvs == {e \in RealEnvs : "GEMINI_API_KEY" \in DOMAIN e}

InitCtl ==
  /\ env \in CtlEnvs
  /\ openai = constructor(env).openai
  /\ geminiModel = constructor(env).geminiModel
  /\ calls = [c \in CallIds |-> IdleCall]
  /\ lastStatus = Undefined
  /\ users = InitUsers
  /\ reqs = [q \in CallIds |-> IdleReq]
  /\ rate = InitRate

NextCtl ==
  \/ \E q \in DOMAIN reqs, ip \in {"ip1"}, body \in CreateBodies : CreateUser(q, ip, body)
  \/ \E q \in DOMAIN reqs : CreateUser_afterFindOne(q)
  \/ \E q \in DOMAIN reqs : CreateUser_afterFindRole(q)
  \/ \E q \in DOMAIN reqs : CreateUser_afterBio(q)
  \/ \E q \in DOMAIN reqs : CreateUser_afterCreate(q)
  \/ \E q \in DOMAIN reqs : CreateUser_afterPopulate(q)
  \/ \E q \in DOMAIN reqs, id \in UpdateIds, body \in UpdateBodies : UpdateUser(q, id, body)
  \/ \E q \in DOMAIN reqs : UpdateUser_afterFindRole(q)
  \/ \E q \in DOMAIN reqs : UpdateUser_afterUpdate(q)
  \/ \E q \in DOMAIN reqs : UpdateUser_afterBio(q)
  \/ \E q \in DOMAIN reqs : UpdateUser_afterSave(q)
  \/ \E q \in DOMAIN reqs : GetAIStatus(q)
  \/ \E c \in DOMAIN calls, resp \in CtlOpenAIResponses : OpenAIResolved(c, resp)
  \/ \E c \in DOMAIN calls, resp \in CtlOpenAIResponses : OpenAIRejected(c, resp)
  \/ \E c \in DOMAIN calls : SleepResolved(c)
  \/ \E c \in DOMAIN calls, resp \in CtlGeminiResponses : GeminiResolved(c, resp)
  \/ \E c \in DOMAIN calls, resp \in CtlGeminiResponses : GeminiRejected(c, resp)

SpecCtl == InitCtl /\ [][NextCtl]_vars

-----------------------------------------------------------------------------
(* Properties of the controllers                                            *)

\* generateBio of request q has rejected and the request has not yet resumed
BioRejected(q, kind) ==
  /\ reqs[q].kind = kind /\ reqs[q].pc = "bio"
  /\ calls[q].pc = "done" /\ calls[q].result.kind = "throw"

\* C11: createUser fails the whole operation when bio generation fails: when
\* generateBio rejects, the request's next step creates no user record, ends
\* the request by forwarding that error to the error handler, and no request
\* whose generateBio rejected goes on to User.create or sends a response of
\* its own.
C11_CreateFailsWhenBioFails ==
  /\ [](\A q \in DOMAIN reqs :
          (reqs[q].kind = "createUser" /\ calls[q].pc = "done"
             /\ calls[q].result.kind = "throw")
          => /\ reqs[q].pc \in {"bio", "done"}
             /\ reqs[q].pc = "done" => reqs[q].res = nextError(calls[q].result.error))
  /\ [][\A q \in DOMAIN reqs :
          (BioRejected(q, "createUser") /\ reqs'[q] # reqs[q])
          => /\ users' = users
             /\ reqs'[q].pc = "done"
             /\ reqs'[q].res = nextError(calls[q].result.error)]_vars

C11_Witness ==
  \E q \in DOMAIN reqs :
    /\ reqs[q].kind = "createUser" /\ reqs[q].pc = "done"
    /\ calls[q].pc = "done" /\ calls[q].result.kind = "throw"
    /\ reqs[q].res.kind = "next"
    /\ \A u \in DOMAIN users : users[u].email # reqs[q].normalizedEmail

\* the 200 response of updateUser for request record r
UpdateSucceeded(r) ==
  /\ r.pc = "done" /\ r.res.kind = "json" /\ r.res.status = 200
  /\ r.res.body.success

\* C12: updateUser proceeds when bio regeneration fails after a role change:
\* the update step persists the body's role and leaves the stored bio alone,
\* and when generateBio then rejects, the request's next step writes nothing
\* to the database and responds 200 success with the new role and the bio
\* the user had.
C12_UpdateProceedsWhenBioFails ==
  /\ [][\A q \in DOMAIN reqs :
          (reqs[q].kind = "updateUser" /\ reqs[q].pc = "update"
             /\ reqs'[q].pc = "bio")
          => /\ users'[reqs[q].id].role = reqs[q].body.role
             /\ users'[reqs[q].id].bio = users[reqs[q].id].bio]_vars
  /\ [][\A q \in DOMAIN reqs :
          (BioRejected(q, "updateUser") /\ reqs'[q] # reqs[q])
          => /\ users' = users
             /\ UpdateSucceeded(reqs'[q])
             /\ reqs'[q].res.body.data.role.id = reqs[q].body.role
             /\ reqs'[q].res.body.data.bio = reqs[q].before.bio]_vars

C12_Witness ==
  \E q \in DOMAIN reqs :
    /\ reqs[q].kind = "updateUser" /\ UpdateSucceeded(reqs[q])
    /\ calls[q].pc = "done" /\ calls[q].result.kind = "throw"
    /\ reqs[q].before.role # reqs[q].body.role
    /\ users[reqs[q].id].role = reqs[q].body.role
    /\ users[reqs[q].id].bio = reqs[q].before.bio

\* C18: updateUser regenerates the bio if the role changes, and an update
\* that does not change the role triggers no bio generation: every update
\* request that has called generateBio has given the user a role other than
\* the one the user had.
C18_RegenerationOnlyOnRoleChange ==
  \A q \in DOMAIN reqs :
    (reqs[q].kind = "updateUser" /\ reqs[q].pc \in {"bio", "save"})
    => reqs[q].user.role # reqs[q].before.role

\* C19: the AI status endpoint returns a boolean configured field that is
\* true whenever at least one service reported in services is configured
\* and false when none is.
C19_ConfiguredIsAnyService ==
  \A q \in DOMAIN reqs :
    (reqs[q].kind = "getAIStatus" /\ reqs[q].pc = "done")
    => LET data == reqs[q].res.body.data IN
       data.configured = [value |-> data.services.openai \/ data.services.gemini]

-----------------------------------------------------------------------------
(* rateLimiter.js: createUserLimiter, the first middleware of               *)
(* POST /api/users. Times are in milliseconds. rate.passed counts, per IP,  *)
(* the requests handed on to createUser since the clock last advanced.      *)

HourMs == 60 * 60 * 1000

\* the options of createUserLimiter (lines 27-28) and the body its handler
\* answers with (lines 38-42)
createUserLimiter ==
  [ windowMs |-> 60 * 60 * 60 * 1000,
    max |-> 10,
    body |-> [success |-> FALSE,
              error |-> "Too many user creation attempts from this IP, please try again later.",
              retryAfter |-> "1 hour"] ]

\* most requests of one IP answered 429 in a row
MaxBlocked == 1

\* most advances of the clock
MaxTicks == 2

\* the store counts a hit of key ip: a new window opens with the first hit
\* and with the first hit after the window's reset time
increment(store, ip, windowMs) ==
  IF store.hits[ip] = 0 \/ store.now >= store.resetTime[ip]
  THEN [store EXCEPT !.hits[ip] = 1, !.resetTime[ip] = store.now + windowMs]
  ELSE [store EXCEPT !.hits[ip] = @ + 1]

\* the middleware: over max the handler of the limiter answers 429,
\* otherwise next() hands the request on
rateLimit(options, store, ip) ==
  LET s == increment(store, ip, options.windowMs) IN
  IF s.hits[ip] > options.max
  THEN [s EXCEPT !.res[ip] = json(429, options.body)]
  ELSE [s EXCEPT !.res[ip] = [kind |-> "nextMiddleware"],
                 !.passed[ip] = @ + 1]

\* POST /api/users from ip arrives at createUserLimiter
PostUsers(ip) ==
  /\ rate.hits[ip] < createUserLimiter.max + MaxBlocked
  /\ rate' = rateLimit(createUserLimiter, rate, ip)
  /\ UNCHANGED <<env, openai, geminiModel, calls, lastStatus, users, reqs>>

\* d milliseconds pass
Tick(d) ==
  /\ rate.ticks < MaxTicks
  /\ rate' = [rate EXCEPT !.now = @ + d, !.ticks = @ + 1,
                          !.passed = [ip \in IPs |-> 0]]
  /\ UNCHANGED <<env, openai, geminiModel, calls, lastStatus, users, reqs>>

NextLimit ==
  \/ \E ip \in IPs : PostUsers(ip)
  \/ \E d \in {HourMs, createUserLimiter.windowMs} : Tick(d)

SpecLimit == InitCtl /\ [][NextLimit]_vars

\* C20: user creation is rate limited to 5 requests per hour per client IP:
\* within one hour at most 5 POST /api/users requests of one IP reach
\* createUser.
C20_FivePerHour == \A ip \in IPs : rate.passed[ip] <= 5

-----------------------------------------------------------------------------
(* rateLimiter.js: apiLimiter, mounted on /api before every route. Here     *)
(* rate is the store of apiLimiter.                                         *)

\* the options of apiLimiter (lines 6-7) and the body its handler answers
\* with (lines 17-21)
apiLimiter ==
  [ windowMs |-> 60 * 60 * 1000,
    max |-> 10000,
    body |-> [success |-> FALSE,
              error |-> "Too many requests from this IP, please try again later.",
              retryAfter |-> "15 minutes"] ]

\* most hits the store of apiLimiter holds, all clients together
MaxApiHits == 101

\* a request to a path under /api from ip arrives at apiLimiter
ApiRequest(ip) ==
  /\ rate.hits["ip1"] + rate.hits["ip2"] < MaxApiHits
  /\ rate' = rateLimit(apiLimiter, rate, ip)
  /\ UNCHANGED <<env, openai, geminiModel, calls, lastStatus, users, reqs>>

NextApi ==
  \/ \E ip \in IPs : ApiRequest(ip)
  \/ \E d \in {apiLimiter.windowMs} : Tick(d)

SpecApi == InitCtl /\ [][NextApi]_vars

\* C21: the general API is rate limited to 100 requests per 15 minutes per
\* client IP: within 15 minutes at most 100 requests of one IP to /api are
\* served.
C21_HundredPerQuarterHour == \A ip \in IPs : rate.passed[ip] <= 100

-----------------------------------------------------------------------------
(* Properties of the retry loop for the settings of the caller              *)

\* the error the retrying call of r rejected with, where it has rejected
RetryRejection(r) ==
  IF r.entry = "generateBio" /\ geminiModel THEN r.error
  ELSE IF r.pc = "done" /\ r.result.kind = "throw" THEN r.result.error
  ELSE Undefined

\* C22: for every attempt k of the retrying primary call that fails with a
\* retryable error: if k < maxAttempts the call waits exactly
\* baseDelay * 2^(k-1) before attempt k+1, and if k = maxAttempts no wait
\* happens; no wait follows a success or a non-retryable failure.
C22_BackoffRule ==
  \A c \in DOMAIN calls :
    LET r == calls[c]
        nA == Len(r.outcomesA)
        waited == {k \in 1..nA : Transient(r.outcomesA[k]) /\ k < r.maxRetries}
    IN r.pc # "idle" =>
         /\ Len(r.delays) = Cardinality(waited)
         /\ \A k \in waited :
              k <= Len(r.delays) /\ r.delays[k] = r.baseDelay * 2 ^ (k - 1)
         /\ (r.pc = "sleep") = (nA \in waited /\ r.callsA = nA /\ r.callsB = 0)
         /\ (r.pc = "openai" => Len(r.delays) = r.callsA - 1 /\ nA = r.callsA - 1)

C22_Witness ==
  \E c \in DOMAIN calls :
    LET r == calls[c] IN
    /\ r.maxRetries = 4 /\ r.baseDelay = 250
    /\ Len(r.outcomesA) = 4 /\ \A k \in 1..4 : Transient(r.outcomesA[k])
    /\ r.delays = <<250, 500, 1000>>
    /\ r.pc = "done"

\* C23: for every attempt k in 1..maxAttempts of the retrying primary call:
\* if attempt k fails with a non-retryable error (status 401 or 403, or code
\* invalid_api_key), the loop aborts at once: exactly k Provider A calls were
\* made, no backoff wait follows it, the retrying call rejects with that same
\* error, and Provider B is called only by the handler of generateBio that
\* caught the rejection, never by the loop.
C23_NonRetryableAborts ==
  \A c \in DOMAIN calls :
    LET r == calls[c]
        k == Len(r.outcomesA)
    IN (k >= 1 /\ Failed(r.outcomesA[k]) /\ AuthClass(ErrorOf(r.outcomesA[k])))
         => /\ k <= r.maxRetries
            /\ r.callsA = k
            /\ Len(r.delays) = k - 1
            /\ r.pc \in {"done", "geminiFallback"}
            /\ RetryRejection(r) = ErrorOf(r.outcomesA[k])
            /\ r.callsB = (IF r.entry = "generateBio" /\ geminiModel THEN 1 ELSE 0)

C23_Witness ==
  \E c \in DOMAIN calls :
    LET r == calls[c] IN
    /\ r.entry = "generateBioWithRetry" /\ r.maxRetries = 4
    /\ Len(r.outcomesA) = 3
    /\ Transient(r.outcomesA[1]) /\ Transient(r.outcomesA[2])
    /\ HasStatus(ErrorOf(r.outcomesA[3]), 401)
    /\ Threw(r, ErrorOf(r.outcomesA[3]))
    /\ geminiModel

\* every Provider A attempt of r so far failed with a retryable error
AllTransient(r) ==
  \A k \in 1..Len(r.outcomesA) : Transient(r.outcomesA[k])

\* C24: for every maxAttempts >= 1: if every Provider A attempt fails with a
\* retryable error, the retrying primary call makes exactly maxAttempts
\* Provider A calls and rejects with the error of the last attempt; no call
\* ever makes more than maxAttempts Provider A calls.
C24_ExactlyMaxAttempts ==
  \A c \in DOMAIN calls :
    LET r == calls[c]
        nA == Len(r.outcomesA)
    IN r.pc # "idle" =>
         /\ r.callsA <= r.maxRetries
         /\ (AllTransient(r) /\ nA < r.maxRetries) => r.pc \in {"openai", "sleep"}
         /\ (AllTransient(r) /\ nA = r.maxRetries)
              => /\ r.callsA = r.maxRetries
                 /\ r.pc \in {"done", "geminiFallback"}
                 /\ RetryRejection(r) = ErrorOf(r.outcomesA[nA])

C24_Witness ==
  \E c \in DOMAIN calls :
    LET r == calls[c] IN
    /\ r.entry = "generateBioWithRetry" /\ r.maxRetries = 2
    /\ Len(r.outcomesA) = 2
    /\ HasStatus(ErrorOf(r.outcomesA[1]), 429)
    /\ r.outcomesA[2].kind = "nullcontent"
    /\ Threw(r, TypeErrorNull)

-----------------------------------------------------------------------------
(* Properties of the order of the provider requests                         *)

\* provider requests of r that have left and are not yet answered
InFlightA(r) == r.callsA - Len(r.outcomesA)

InFlightB(r) == r.callsB - Len(r.outcomesB)

\* C25: within one generateBio call at most one provider request is in
\* flight at any time: each Provider A attempt has completed and any backoff
\* wait has elapsed before the next attempt starts, and the Provider B
\* fallback call starts only after the last Provider A attempt has completed.
C25_OneRequestInFlight ==
  /\ [](\A c \in DOMAIN calls :
          LET r == calls[c] IN
          /\ InFlightA(r) \in {0, 1} /\ InFlightB(r) \in {0, 1}
          /\ InFlightA(r) + InFlightB(r) <= 1
          /\ (InFlightA(r) = 1) = (r.pc = "openai")
          /\ (InFlightB(r) = 1) = (r.pc \in {"geminiFallback", "geminiDirect"})
          /\ (r.callsA >= 1 /\ r.callsB >= 1) =>
               /\ Len(r.outcomesA) = r.callsA
               /\ Failed(r.outcomesA[r.callsA]))
  /\ [][\A c \in DOMAIN calls :
          (calls[c].pc \notin {"idle", "done"}
             /\ calls'[c].callsA = calls[c].callsA + 1)
          => /\ calls[c].pc = "sleep"
             /\ Len(calls'[c].delays) = calls[c].callsA]_vars

C25_Witness ==
  \E c \in DOMAIN calls :
    LET r == calls[c] IN
    /\ r.pc = "geminiFallback"
    /\ r.callsA = 3 /\ Len(r.outcomesA) = 3 /\ Len(r.delays) = 2
    /\ InFlightB(r) = 1

\* C26: when Provider A is configured, Provider B is invoked in a
\* generateBio call only after Provider A's retrying call has ended in
\* failure (exhaustion or a non-retryable error), never in a call in which a
\* Provider A attempt succeeded, and at most once per call in every
\* execution.
C26_FallbackOnlyAfterFailure ==
  \A c \in DOMAIN calls :
    LET r == calls[c] IN
    /\ r.callsB <= 1
    /\ (ProviderAConfigured /\ r.callsB >= 1)
         => /\ RetryFailed(r)
            /\ \A i \in 1..Len(r.outcomesA) : ~Succeeded(r.outcomesA[i])
    /\ (\E i \in 1..Len(r.outcomesA) : Succeeded(r.outcomesA[i])) => r.callsB = 0

C26_Witness ==
  \E c \in DOMAIN calls :
    LET r == calls[c] IN
    /\ ProviderAConfigured
    /\ RetryFailed(r) /\ Len(r.outcomesA) = 3
    /\ r.callsB = 1 /\ Len(r.outcomesB) = 1 /\ r.outcomesB[1].kind = "error"
    /\ r.pc = "done"

\* C27: every generateBio call terminates: when each provider call and each
\* backoff wait eventually completes, a call that has started eventually
\* returns a biography or fails with an error.
C27_Terminates ==
  \A c \in CallIds :
    (calls[c].pc \notin {"idle", "done"})
      ~> (calls[c].pc = "done" /\ calls[c].result.kind \in {"return", "throw"})

C27_Witness ==
  \E c \in DOMAIN calls :
    LET r == calls[c] IN
    /\ r.pc = "done" /\ r.result.kind = "throw"
    /\ r.callsA = 3 /\ r.callsB = 1 /\ Len(r.delays) = 2

\* C28: getServiceStatus and generateBio agree on the usable providers:
\* generateBio attempts Provider A iff status.openai is true, it calls
\* Provider B only if status.gemini is true, and it fails with the
\* "No AI service is configured" error iff status.hasAnyService is false.
C28_StatusAgreesWithGenerateBio ==
  \A c \in DOMAIN calls :
    LET r == calls[c]
        status == getServiceStatus
    IN r.pc # "idle" =>
         /\ (r.callsA >= 1) = status.openai
         /\ (r.callsB >= 1 => status.gemini)
         /\ Threw(r, noServiceError) = ~status.hasAnyService

C28_Witness ==
  \E c \in DOMAIN calls :
    /\ "GEMINI_API_KEY" \in DOMAIN env /\ env["GEMINI_API_KEY"] = PLACEHOLDER
    /\ "OPENAI_API_KEY" \in DOMAIN env /\ env["OPENAI_API_KEY"] = ""
    /\ Threw(calls[c], noServiceError)
    /\ ~getServiceStatus.hasAnyService

-----------------------------------------------------------------------------
(* Properties of createUser's checks                                        *)

\* the stored users whose email equals e without regard to case
SameEmail(e) ==
  {u \in DOMAIN users : toLowerCase(users[u].email) = toLowerCase(e)}

\* the response of request record r is a rejection by one of the checks
Rejected(r) ==
  r.pc = "done" /\ r.res.kind = "json" /\ r.res.status \in {400, 409}

\* C29: createUser invokes generateBio only after the email is present and
\* well-formed, no existing user has the same email (compared without regard
\* to case), and the role id resolves to an existing role; a request rejected
\* by one of these checks (400 or 409) makes no provider call and creates no
\* user record.
C29_ChecksBeforeGenerateBio ==
  /\ [](\A q \in DOMAIN reqs :
          reqs[q].kind = "createUser" =>
            /\ calls[q].pc # "idle" =>
                 /\ reqs[q].pc \in {"bio", "create", "populate", "done"}
                 /\ trim(reqs[q].body.email) # <<>>
                 /\ emailRegexTest(reqs[q].normalizedEmail)
                 /\ reqs[q].body.role \in DOMAIN Roles
            /\ Rejected(reqs[q]) => calls[q] = IdleCall)
  /\ [][\A q \in DOMAIN reqs :
          /\ (reqs[q].kind = "createUser" /\ reqs[q].pc = "findOne"
                /\ reqs'[q].pc = "findRole")
             => SameEmail(reqs[q].normalizedEmail) = {}
          /\ (reqs'[q].kind = "createUser" /\ Rejected(reqs'[q])
                /\ reqs'[q] # reqs[q])
             => users' = users /\ calls'[q] = IdleCall]_vars

C29_Witness ==
  \E q \in DOMAIN reqs :
    /\ reqs[q].kind = "createUser" /\ Rejected(reqs[q])
    /\ reqs[q].res.status = 409
    /\ reqs[q].body.email = <<" ", "A", "@", "x">>
    /\ calls[q] = IdleCall
    /\ users = InitUsers

-----------------------------------------------------------------------------
(* Concurrent createUser requests that carry the same email, with both      *)
(* providers configured and OpenAI answering every request                  *)

RaceBodies ==
  {[name |-> "Ann", email |-> e, role |-> "r1"] :
     e \in {<<"b", "@", "x">>, <<" ", "B", "@", "x">>}}

RaceOpenAIResponses == {[kind |-> "completion", content |-> <<" ", "b">>]}

InitRace == InitConc

NextRace ==
  \/ \E q \in DOMAIN reqs, ip \in IPs, body \in RaceBodies : CreateUser(q, ip, body)
  \/ \E q \in DOMAIN reqs : CreateUser_afterFindOne(q)
  \/ \E q \in DOMAIN reqs : CreateUser_afterFindRole(q)
  \/ \E q \in DOMAIN reqs : CreateUser_afterBio(q)
  \/ \E q \in DOMAIN reqs : CreateUser_afterCreate(q)
  \/ \E q \in DOMAIN reqs : CreateUser_afterPopulate(q)
  \/ \E c \in DOMAIN calls, resp \in RaceOpenAIResponses : OpenAIResolved(c, resp)

SpecRace == InitRace /\ [][NextRace]_vars

\* C30: under every interleaving of concurrent createUser requests that
\* carry the same email (up to case and surrounding whitespace), at most one
\* user record with that email is created, and every request that does not
\* create the record is answered with the 409 conflict response.
C30_OneRecordOthersConflict ==
  /\ \A u \in DOMAIN users : \A v \in DOMAIN users :
       toLowerCase(users[u].email) = toLowerCase(users[v].email) => u = v
  /\ \A q \in DOMAIN reqs :
       (reqs[q].kind = "createUser" /\ reqs[q].pc = "done")
         => \/ reqs[q].res.kind = "json" /\ reqs[q].res.status = 201
            \/ reqs[q].res = conflictResponse(reqs[q].normalizedEmail)

====
